---------------------------- MODULE Spec2Model ----------------------------
(***************************************************************************)
(* Model of the quota tracker in src/app.py: one Streamlit script run per  *)
(* interaction.  A run reads the sidebar, filters the loaded applications  *)
(* by segment, computes the monthly KPI summary and then renders the       *)
(* monthly, weekly and daily comparison charts.                            *)
(*                                                                         *)
(* Data frames of applications are bags (record |-> number of rows), the   *)
(* quota table is a sequence of rows, dates are records [y, m, d] of the   *)
(* proleptic Gregorian calendar (as pandas.Timestamp), and quotients that  *)
(* Python computes as floats are kept as exact fractions [num, den],       *)
(* except the forecast, whose float rounding is modelled bit-exactly.      *)
(***************************************************************************)
EXTENDS Integers, Sequences, FiniteSets, TLC

(***************************************************************************)
(* Bounds of the model                                                     *)
(***************************************************************************)
MaxEvents == 2      \* distinct application records in the loaded snapshot

(***************************************************************************)
(* Calendar (pandas.Timestamp / datetime.date arithmetic)                  *)
(***************************************************************************)
Date(y, m, d) == [y |-> y, m |-> m, d |-> d]

IsLeap(y) == (y % 4 = 0 /\ y % 100 # 0) \/ y % 400 = 0

DaysInMonth(y, m) ==
    IF m = 2 THEN (IF IsLeap(y) THEN 29 ELSE 28)
    ELSE IF m \in {4, 6, 9, 11} THEN 30 ELSE 31

DaysBeforeMonth(y, m) ==
    LET cum == <<0, 31, 59, 90, 120, 151, 181, 212, 243, 273, 304, 334>>
    IN  cum[m] + (IF m > 2 /\ IsLeap(y) THEN 1 ELSE 0)

DayOfYear(dt) == DaysBeforeMonth(dt.y, dt.m) + dt.d

\* date.toordinal(): 0001-01-01 is day 1
Ordinal(dt) ==
    LET p == dt.y - 1
    IN  365 * p + (p \div 4) - (p \div 100) + (p \div 400) + DayOfYear(dt)

\* difference of two dates in days: (a - b).days
DaysBetween(a, b) == Ordinal(a) - Ordinal(b)

\* the comparison taken strictly
DateLeq_strict(a, b) == Ordinal(a) < Ordinal(b)

\* a <= b on timestamps
DateLeq(a, b) == Ordinal(a) <= Ordinal(b)

\* date.isoweekday(): Monday = 1 .. Sunday = 7
IsoWeekday(dt) == ((Ordinal(dt) + 6) % 7) + 1

\* number of ISO weeks of ISO year y (52 or 53)
IsoWeeksInYear(y) ==
    LET P(yy) == (yy + (yy \div 4) - (yy \div 100) + (yy \div 400)) % 7
    IN  IF P(y) = 4 \/ P(y - 1) = 3 THEN 53 ELSE 52

\* the week number without the wrap at either end of the year
IsoWeek_nowrap(dt) == (DayOfYear(dt) - IsoWeekday(dt) + 10) \div 7

\* date.isocalendar().week
IsoWeek(dt) ==
    LET w == (DayOfYear(dt) - IsoWeekday(dt) + 10) \div 7
    IN  IF w < 1 THEN IsoWeeksInYear(dt.y - 1)
        ELSE IF w > IsoWeeksInYear(dt.y) THEN 1
        ELSE w

\* today + timedelta(days=1)
NextDay(dt) ==
    IF dt.d < DaysInMonth(dt.y, dt.m) THEN Date(dt.y, dt.m, dt.d + 1)
    ELSE IF dt.m < 12 THEN Date(dt.y, dt.m + 1, 1)
    ELSE Date(dt.y + 1, 1, 1)

\* the month end with February fixed at 28 days
MonthEnd_noleap(dt) ==
    Date(dt.y, dt.m, IF dt.m = 2 THEN 28 ELSE DaysInMonth(dt.y, dt.m))

\* first_day + pd.offsets.MonthEnd(0), for first_day = today.replace(day=1)
MonthEnd(dt) == Date(dt.y, dt.m, DaysInMonth(dt.y, dt.m))

(***************************************************************************)
(* Strings                                                                 *)
(***************************************************************************)
\* str.lower() on the category names that occur in the model
Lower(s) ==
    CASE s = "Filipina"    -> "filipina"
      [] s = "Philippines" -> "philippines"
      [] OTHER             -> s

month_abbrs == <<"Jan", "Feb", "Mar", "Apr", "May", "Jun",
                 "Jul", "Aug", "Sep", "Oct", "Nov", "Dec">>

\* position of a month abbreviation in the categorical order (1..12)
MonthIndex(ab) == CHOOSE i \in 1..12 : month_abbrs[i] = ab

Digits == <<"0", "1", "2", "3", "4", "5", "6", "7", "8", "9">>

DigitChar(n) == Digits[n + 1]

DigitVal(c) == (CHOOSE i \in 1..10 : Digits[i] = c) - 1

\* strftime('%d/%m'): the key as its five characters
StrfDayMonth(dt) ==
    <<DigitChar(dt.d \div 10), DigitChar(dt.d % 10), "/",
      DigitChar(dt.m \div 10), DigitChar(dt.m % 10)>>

\* int(i.split('/')[0]) and int(i.split('/')[1]) of a "DD/MM" key
KeyDay(k)   == DigitVal(k[1]) * 10 + DigitVal(k[2])
KeyMonth(k) == DigitVal(k[4]) * 10 + DigitVal(k[5])

\* code point order of the characters of a day key ('/' sorts before '0')
CharCode(c) == IF c = "/" THEN 47 ELSE 48 + DigitVal(c)

\* rank of a five-character key in lexicographic string order
LexRank(k) ==
    (((CharCode(k[1]) - 47) * 11 + (CharCode(k[2]) - 47)) * 11
       + (CharCode(k[4]) - 47)) * 11 + (CharCode(k[5]) - 47)

(***************************************************************************)
(* Exact fractions for float quotients                                     *)
(***************************************************************************)
Rat(n, d) == [num |-> n, den |-> d]

RatZero == Rat(0, 1)

RatEq(a, b) == a.num * b.den = b.num * a.den

RatScale(a, k) == Rat(a.num * k, a.den)

(***************************************************************************)
(* IEEE-754 double evaluation of int(a / d * n)                            *)
(*                                                                         *)
(* a / d is rounded to a 53-bit significand, the product with n is rounded *)
(* again and int() truncates.  When d does not divide a*n the exact value  *)
(* is at least 1/d away from an integer and the truncation is the exact    *)
(* floor.  When the exact value K = a*n/d is an integer the result is K or *)
(* K - 1, decided by the sign and size of the first rounding error carried *)
(* through the multiplication.                                             *)
(***************************************************************************)
RECURSIVE Pow2(_)
Pow2(k) == IF k = 0 THEN 1 ELSE 2 * Pow2(k - 1)

RECURSIVE Pow2Mod(_, _)
Pow2Mod(k, m) == IF k = 0 THEN 1 % m ELSE (2 * Pow2Mod(k - 1, m)) % m

\* floor(log2(num / den)) for num, den > 0
RECURSIVE FloorLog2Up(_, _, _)
FloorLog2Up(num, den, e) ==
    IF num >= den * Pow2(e + 1) THEN FloorLog2Up(num, den, e + 1) ELSE e

RECURSIVE FloorLog2Down(_, _, _)
FloorLog2Down(num, den, e) ==
    IF num * Pow2(e) < den THEN FloorLog2Down(num, den, e + 1) ELSE 0 - e

FloorLog2(num, den) ==
    IF num >= den THEN FloorLog2Up(num, den, 0) ELSE FloorLog2Down(num, den, 0)

\* rounding error of a / d in units of (last place)/d: negative = rounded down
DivRoundErr(a, d) ==
    LET k  == 52 - FloorLog2(a, d)
        r  == ((a % d) * Pow2Mod(k, d)) % d
        x2 == ((a % (2 * d)) * Pow2Mod(k, 2 * d)) % (2 * d)
        q  == (x2 - r) \div d
    IN  IF r = 0 THEN 0
        ELSE IF 2 * r < d THEN 0 - r
        ELSE IF 2 * r > d THEN d - r
        ELSE IF q % 2 = 0 THEN 0 - r ELSE d - r

FloatDivMulTrunc(a, d, n) ==
    IF a = 0 THEN 0
    ELSE IF (a * n) % d # 0 THEN (a * n) \div d
    ELSE LET K   == (a * n) \div d
             err == (DivRoundErr(a, d) * n) \div d
             gap == Pow2(FloorLog2(K, 1) - FloorLog2(a, d))
             low == IF K = Pow2(FloorLog2(K, 1))
                    THEN 4 * (0 - err) > gap
                    ELSE 2 * (0 - err) > gap
         IN  IF err < 0 /\ low THEN K - 1 ELSE K

(***************************************************************************)
(* Data frames                                                             *)
(***************************************************************************)
RECURSIVE SumCounts(_, _)
SumCounts(df, rows) ==
    IF rows = {} THEN 0
    ELSE LET r == CHOOSE x \in rows : TRUE
         IN  df[r] + SumCounts(df, rows \ {r})

\* df.shape[0]
NumRows(df) == SumCounts(df, DOMAIN df)

\* df[mask]
Restrict(df, rows) == [r \in rows |-> df[r]]

EmptyFrame == Restrict(<<>>, {})

Min(S) == CHOOSE x \in S : \A y \in S : x <= y

\* stable insertion of k into a sequence sorted by rank
RECURSIVE InsertByRank(_, _, _)
InsertByRank(s, k, rank) ==
    IF s = <<>> THEN <<k>>
    ELSE IF rank[k] < rank[Head(s)] THEN <<k>> \o s
    ELSE <<Head(s)>> \o InsertByRank(Tail(s), k, rank)

\* stable sort of a sequence by rank
RECURSIVE SortSeqByRank(_, _)
SortSeqByRank(s, rank) ==
    IF s = <<>> THEN <<>>
    ELSE InsertByRank(SortSeqByRank(SubSeq(s, 1, Len(s) - 1), rank),
                      s[Len(s)], rank)

\* the elements of a set as a sequence ascending by rank (ranks distinct)
RECURSIVE SetToSortedSeq(_, _)
SetToSortedSeq(S, rank) ==
    IF S = {} THEN <<>>
    ELSE LET k == CHOOSE x \in S : \A y \in S : rank[x] <= rank[y]
         IN  <<k>> \o SetToSortedSeq(S \ {k}, rank)

SeqRange(s) == {s[i] : i \in 1..Len(s)}

(***************************************************************************)
(* Filters (src/app.py 41-51)                                              *)
(***************************************************************************)
\* the active-visa restriction compared without lower()
filter_applications_cased(df, n, l, active) ==
    LET seg == {r \in DOMAIN df : r.nationality = n /\ r.location = l}
        act == IF active /\ n = "filipina" /\ l = "philippines"
               THEN {r \in seg : r.active_visa_status = "true"}
               ELSE seg
    IN  [r \in act |-> df[r]]

filter_applications(df, n, l, active) ==
    LET seg == {r \in DOMAIN df : r.nationality = n /\ r.location = l}
        act == IF active /\ Lower(n) = "filipina" /\ Lower(l) = "philippines"
               THEN {r \in seg : r.active_visa_status = "true"}
               ELSE seg
    IN  Restrict(df, act)

\* the quota column chosen without regard to active_only
get_daily_quota_all(df, n, l, active) ==
    LET row == {i \in 1..Len(df) :
                   df[i].nationality = n /\ df[i].location = l}
    IN  IF row = {} THEN 0 ELSE df[Min(row)].quota_all

get_daily_quota(df, n, l, active) ==
    LET row == {i \in 1..Len(df) :
                   df[i].nationality = n /\ df[i].location = l}
    IN  IF row = {} THEN 0
        ELSE IF active THEN df[Min(row)].quota_active
        ELSE df[Min(row)].quota_all

(***************************************************************************)
(* Aggregation (src/app.py 54-89)                                          *)
(***************************************************************************)
Levels == <<"M", "W", "D">>

\* the period key of a date at a level
PeriodOf(level, dt) ==
    IF level = "M" THEN month_abbrs[dt.m]
    ELSE IF level = "W" THEN IsoWeek(dt)
    ELSE StrfDayMonth(dt)

\* the rows without the restriction to the two years
YearRows_all(df, this_y, last_y) == DOMAIN df

\* rows of the two comparison years
YearRows(df, this_y, last_y) ==
    {r \in DOMAIN df : r.application_date.y \in {this_y, last_y}}

\* df.groupby(["period", "year"]).size(): (period, year) |-> count.  With a
\* categorical period and observed=False every category is a group.
GroupSizes(df, level, this_y, last_y, observed) ==
    LET rows  == YearRows(df, this_y, last_y)
        seen  == {<<PeriodOf(level, r.application_date), r.application_date.y>>
                     : r \in rows}
        years == {r.application_date.y : r \in rows}
        keys  == IF level = "M" /\ ~observed
                 THEN {<<month_abbrs[i], y>> : i \in 1..12, y \in years}
                 ELSE seen
    IN  [g \in keys |->
            SumCounts(df, {r \in rows :
                <<PeriodOf(level, r.application_date), r.application_date.y>> = g})]

\* order in which pivot() leaves the index
PivotRank(level, k) ==
    IF level = "M" THEN MonthIndex(k)
    ELSE IF level = "W" THEN k
    ELSE LexRank(k)

\* the sort key with day and month exchanged
SortKey_dayfirst(level, k) ==
    IF level = "D" THEN KeyDay(k) * 100 + KeyMonth(k) ELSE k

\* the key function of sort_index (line 87)
SortKey(level, k) ==
    IF level = "D" THEN KeyMonth(k) * 100 + KeyDay(k) ELSE k

\* grouped.pivot(index="period", columns="year", values="applications"):
\* a missing (period, year) combination is NaN, i.e. not in DOMAIN cells
Pivot(df, level, this_y, last_y, observed) ==
    LET grouped == GroupSizes(df, level, this_y, last_y, observed)
        keys    == {g[1] : g \in DOMAIN grouped}
    IN  [index   |-> SetToSortedSeq(keys, [k \in keys |-> PivotRank(level, k)]),
         columns |-> {g[2] : g \in DOMAIN grouped},
         cells   |-> grouped]

\* masking that also takes the current month and the current week
MaskedKeys_incl(df, pivoted, level, this_y, last_y, today_) ==
    LET keys == SeqRange(pivoted.index)
    IN  IF this_y \notin pivoted.columns THEN {}
        ELSE IF level = "M"
        THEN keys \cap {month_abbrs[i] : i \in today_.m..12}
        ELSE IF level = "W"
        THEN {k \in keys : k >= IsoWeek(today_)}
        ELSE keys \ {PeriodOf(level, r.application_date) :
                        r \in {x \in YearRows(df, this_y, last_y) :
                                  /\ x.application_date.y = this_y
                                  /\ DateLeq(x.application_date, today_)}}

\* the current-year cells that lines 72-84 set to NaN
MaskedKeys(df, pivoted, level, this_y, last_y, today_) ==
    LET keys == SeqRange(pivoted.index)
    IN  IF this_y \notin pivoted.columns THEN {}
        ELSE IF level = "M"
        THEN LET later_months == {month_abbrs[i] : i \in (today_.m + 1)..12}
             IN  keys \cap later_months
        ELSE IF level = "W"
        THEN LET current_week == IsoWeek(today_)
             IN  {k \in keys : k > current_week}
        ELSE LET df_cutoff  == {r \in YearRows(df, this_y, last_y) :
                                   /\ r.application_date.y = this_y
                                   /\ DateLeq(r.application_date, today_)}
                 valid_days == {PeriodOf(level, r.application_date)
                                   : r \in df_cutoff}
             IN  keys \ valid_days

prepare_grouped(df, level, this_y, last_y, today_, observed) ==
    LET pivoted == Pivot(df, level, this_y, last_y, observed)
        masked  == MaskedKeys(df, pivoted, level, this_y, last_y, today_)
        kept    == {c \in DOMAIN pivoted.cells :
                       ~(c[2] = this_y /\ c[1] \in masked)}
        keys    == SeqRange(pivoted.index)
    IN  [index   |-> IF level \in {"W", "D"}
                     THEN SortSeqByRank(pivoted.index,
                                        [k \in keys |-> SortKey(level, k)])
                     ELSE pivoted.index,
         columns |-> pivoted.columns,
         cells   |-> Restrict(pivoted.cells, kept)]

(***************************************************************************)
(* Plotting (src/app.py 92-117)                                            *)
(***************************************************************************)
\* datetime.strptime(f"{x}/{this_year}", "%d/%m/%Y") succeeds
ParsesInYear(k, y) ==
    /\ KeyMonth(k) \in 1..12
    /\ KeyDay(k) \in 1..DaysInMonth(y, KeyMonth(k))

safe_parse(k, y) == Date(y, KeyMonth(k), KeyDay(k))

\* the x values of one column's trace that carry a number
Series(table, y) ==
    [k \in {x \in SeqRange(table.index) : <<x, y>> \in DOMAIN table.cells}
        |-> table.cells[<<k, y>>]]

\* the day cutoff taken strictly after tomorrow
FutureX_strict(table, level, this_y, today_) ==
    IF this_y \notin table.columns THEN <<>>
    ELSE IF level = "D"
    THEN LET tomorrow == NextDay(today_)
         IN  SelectSeq(table.index,
                 LAMBDA k : /\ ParsesInYear(k, this_y)
                            /\ ~DateLeq(safe_parse(k, this_y), tomorrow))
    ELSE SelectSeq(table.index,
             LAMBDA k : <<k, this_y>> \notin DOMAIN table.cells)

FutureX(table, level, this_y, today_) ==
    IF this_y \notin table.columns THEN <<>>
    ELSE IF level = "D"
    THEN LET tomorrow == NextDay(today_)
         IN  SelectSeq(table.index,
                 LAMBDA k : /\ ParsesInYear(k, this_y)
                            /\ DateLeq(tomorrow, safe_parse(k, this_y)))
    ELSE SelectSeq(table.index,
             LAMBDA k : <<k, this_y>> \notin DOMAIN table.cells)

\* the chart with the future keys taken outside the test of line 96
plot_chart_unguarded(table, this_y, last_y, needed, level, today_) ==
    LET future_x ==
            IF level = "D"
            THEN SelectSeq(table.index,
                     LAMBDA k : /\ ParsesInYear(k, this_y)
                                /\ DateLeq(NextDay(today_),
                                           safe_parse(k, this_y)))
            ELSE SelectSeq(table.index,
                     LAMBDA k : <<k, this_y>> \notin DOMAIN table.cells)
    IN  [x          |-> table.index,
         has_last   |-> last_y \in table.columns,
         last       |-> Series(table, last_y),
         has_this   |-> this_y \in table.columns,
         this       |-> Series(table, this_y),
         future_x   |-> future_x,
         has_needed |-> future_x # <<>>,
         needed_avg |-> needed]

plot_chart(table, this_y, last_y, needed, level, today_) ==
    LET future_x == FutureX(table, level, this_y, today_)
    IN  [x          |-> table.index,
         has_last   |-> last_y \in table.columns,
         last       |-> Series(table, last_y),
         has_this   |-> this_y \in table.columns,
         this       |-> Series(table, this_y),
         future_x   |-> future_x,
         has_needed |-> future_x # <<>>,
         needed_avg |-> needed]

NoChart ==
    [x |-> <<>>, has_last |-> FALSE, last |-> EmptyFrame, has_this |-> FALSE,
     this |-> EmptyFrame, future_x |-> <<>>, has_needed |-> FALSE,
     needed_avg |-> RatZero]

(***************************************************************************)
(* st.cache_data(ttl=3600) (src/app.py 15, 28): an entry keeps the frame a *)
(* loader returned and the time it was stored                              *)
(***************************************************************************)
TTL == 3600

NoEntry(empty) == [filled |-> FALSE, at |-> 0, value |-> empty]

Entry(t, frame) == [filled |-> TRUE, at |-> t, value |-> frame]

CacheHit_half(entry, t) == entry.filled /\ t - entry.at < TTL \div 2

\* an entry is served while it is younger than the time to live
CacheHit(entry, t) == entry.filled /\ t - entry.at < TTL

(***************************************************************************)
(* State of one script run                                                 *)
(***************************************************************************)
VARIABLES
    table_apps,     \* the warehouse view that load_applications queries
    table_quotas,   \* the warehouse table that load_quotas queries
    now,            \* the clock of the server, in seconds
    cache_apps,     \* st.cache_data entry of load_applications
    cache_quotas,   \* st.cache_data entry of load_quotas
    queries,        \* the loaders whose query was issued by the current run
    df_apps,        \* load_applications(): the snapshot of applications
    df_quotas,      \* load_quotas(): the quota table
    today,          \* pd.to_datetime("today").normalize()
    observed,       \* groupby's default for `observed` in the installed pandas
    nat,            \* sidebar: nationality category
    loc,            \* sidebar: location category
    active_only,    \* sidebar: "Consider Active Visas?" = "Yes"
    pc,             \* position of the script
    raised,         \* the exception that ended the run, or "none"
    df_filtered,
    daily_quota,
    year_days,
    total_quota,
    kpi,            \* the figures of the monthly KPI summary
    charts          \* level |-> what plot_chart drew

vars == <<table_apps, table_quotas, now, cache_apps, cache_quotas, queries,
          df_apps, df_quotas, today, observed, nat, loc, active_only, pc,
          raised, df_filtered, daily_quota, year_days, total_quota, kpi,
          charts>>

\* what a run reads from outside and what the loaders gave it
inputs == <<table_apps, table_quotas, now, cache_apps, cache_quotas, queries,
            df_apps, df_quotas, today, observed>>

NoKpi ==
    [days_passed |-> 0, remaining_days_in_month |-> 0, monthly_quota |-> 0,
     attained_this_month |-> 0, percent_delivered |-> RatZero,
     forecast_by_eom |-> 0, percent_forecast |-> RatZero]

NoCharts == [l \in SeqRange(Levels) |-> NoChart]

Unset == ""

\* the state of a fresh script namespace
FreshRun ==
    /\ pc = "load"
    /\ raised = "none"
    /\ df_filtered = EmptyFrame
    /\ daily_quota = 0
    /\ year_days = 0
    /\ total_quota = 0
    /\ kpi = NoKpi
    /\ charts = NoCharts

(***************************************************************************)
(* Input snapshots                                                         *)
(***************************************************************************)
App(dt, n, l, flag) ==
    [application_date |-> dt, nationality |-> n, location |-> l,
     active_visa_status |-> flag]

Quota(n, l, qall, qact) ==
    [nationality |-> n, location |-> l, quota_all |-> qall,
     quota_active |-> qact]

\* all frames of at most MaxEvents distinct records drawn from a pool
Frames(pool, mults) ==
    UNION {[rows -> mults] :
              rows \in {S \in SUBSET pool : Cardinality(S) <= MaxEvents}}

\* Segment-rich snapshots: one date, every spelling of the categories
SegNats  == {"filipina", "Filipina", "ethiopian"}
SegLocs  == {"outside_uae", "philippines", "Philippines"}
SegFlags == {"true", "false"}

SegPool ==
    {App(Date(2024, 1, 5), n, l, f) : n \in SegNats, l \in SegLocs,
                                      f \in SegFlags}

SegQuotaTables ==
    { <<>>,
      <<Quota("filipina", "philippines", 10, 5),
        Quota("ethiopian", "outside_uae", 8, 3)>>,
      <<Quota("Filipina", "Philippines", 6, 0),
        Quota("filipina", "outside_uae", 0, 4),
        Quota("filipina", "outside_uae", 9, 9)>> }

\* Calendar-rich snapshots: the default segment, dates around the year
\* boundary, the leap day, a century year and the ends of months
CalDates ==
    { Date(2022, 12, 20), Date(2023, 1, 1), Date(2023, 1, 5),
      Date(2023, 1, 10), Date(2023, 2, 14), Date(2024, 1, 5),
      Date(2024, 1, 20), Date(2024, 2, 1), Date(2024, 2, 29),
      Date(2024, 6, 10), Date(2024, 12, 20), Date(2024, 12, 30),
      Date(2100, 2, 10) }

CalPool == {App(dt, "filipina", "outside_uae", "false") : dt \in CalDates}

CalMults == {1, 31}

CalTodays ==
    { Date(2023, 1, 1), Date(2023, 2, 14), Date(2024, 1, 4), Date(2024, 1, 21),
      Date(2024, 2, 29), Date(2024, 6, 15), Date(2024, 12, 30),
      Date(2024, 12, 31), Date(2100, 3, 1) }

CalQuotaTables == { <<Quota("filipina", "outside_uae", 10, 0)>> }

TypeInputs(pool, mults, todays, tables) ==
    /\ table_apps \in Frames(pool, mults)
    /\ table_quotas \in tables
    /\ today \in todays
    /\ observed \in BOOLEAN

\* a started server: nothing cached, nothing loaded, no widget touched
Blank ==
    /\ now = 0
    /\ cache_apps = NoEntry(EmptyFrame)
    /\ cache_quotas = NoEntry(<<>>)
    /\ queries = {}
    /\ df_apps = EmptyFrame
    /\ df_quotas = <<>>
    /\ nat = Unset
    /\ loc = Unset
    /\ active_only = FALSE
    /\ FreshRun

Init ==
    /\ TypeInputs(SegPool, {1}, {Date(2024, 1, 21)}, SegQuotaTables)
    /\ Blank

InitCal ==
    /\ TypeInputs(CalPool, CalMults, CalTodays, CalQuotaTables)
    /\ Blank

\* Scenario snapshots: three dated applications, in a segment (A, B) of
\* their own and in the default segment, in every combination
E2EDates == {Date(2024, 1, 5), Date(2024, 1, 20), Date(2023, 1, 10)}

E2EPool ==
    {App(dt, "A", "B", "false") : dt \in E2EDates}
        \cup {App(dt, "filipina", "outside_uae", "false") : dt \in E2EDates}

E2EQuotaTables ==
    { <<Quota("A", "B", 10, 5), Quota("filipina", "outside_uae", 10, 5)>> }

InitE2E ==
    /\ table_apps \in {[r \in rows |-> 1] : rows \in SUBSET E2EPool}
    /\ table_quotas \in E2EQuotaTables
    /\ today = Date(2024, 1, 21)
    /\ observed \in BOOLEAN
    /\ Blank

(***************************************************************************)
(* The script (src/app.py 124-201)                                         *)
(***************************************************************************)
NatOptions == {r.nationality : r \in DOMAIN df_apps}
LocOptions == {r.location : r \in DOMAIN df_apps}

this_year == today.y
last_year == this_year - 1

\* lines 124-125: each loader answers from its cache entry or queries the
\* warehouse and stores the result; the clock is read once per run
Load ==
    /\ pc = "load"
    /\ LET hit_apps   == CacheHit(cache_apps, now)
           hit_quotas == CacheHit(cache_quotas, now)
       IN  /\ cache_apps' = IF hit_apps THEN cache_apps
                             ELSE Entry(now, table_apps)
           /\ cache_quotas' = IF hit_quotas THEN cache_quotas
                               ELSE Entry(now, table_quotas)
           /\ queries' = (IF hit_apps THEN {} ELSE {"load_applications"})
                            \cup (IF hit_quotas THEN {} ELSE {"load_quotas"})
    /\ df_apps' = cache_apps'.value
    /\ df_quotas' = cache_quotas'.value
    /\ pc' = "sidebar"
    /\ UNCHANGED <<table_apps, table_quotas, now, today, observed, nat, loc,
                   active_only, raised, df_filtered, daily_quota, year_days,
                   total_quota, kpi, charts>>

\* lines 129-131: list.index of the default raises when it is not an option
Sidebar ==
    /\ pc = "sidebar"
    /\ IF "filipina" \in NatOptions /\ "outside_uae" \in LocOptions
       THEN /\ nat' = IF nat = Unset THEN "filipina" ELSE nat
            /\ loc' = IF loc = Unset THEN "outside_uae" ELSE loc
            /\ pc' = "filter"
            /\ UNCHANGED raised
       ELSE /\ raised' = "ValueError: not in list"
            /\ pc' = "halt"
            /\ UNCHANGED <<nat, loc>>
    /\ UNCHANGED <<inputs, active_only, df_filtered, daily_quota, year_days,
                   total_quota, kpi, charts>>

\* line 139
YearDays(y) == IF y % 4 = 0 THEN 366 ELSE 365

\* lines 134-141
Filtering ==
    /\ pc = "filter"
    /\ df_filtered' = filter_applications(df_apps, nat, loc, active_only)
    /\ year_days' = YearDays(today.y)
    /\ daily_quota' = get_daily_quota(df_quotas, nat, loc, active_only)
    /\ total_quota' = daily_quota' * year_days'
    /\ pc' = "forecast"
    /\ UNCHANGED <<inputs, nat, loc, active_only, raised, kpi, charts>>

\* Python's true division: a zero divisor raises ZeroDivisionError, which
\* is recorded as a fraction with denominator 0
TrueDiv(n, d) == Rat(n, d)

Raises(q) == q.den = 0

\* the percentage without the `if monthly_quota` guard
PercentOf_unguarded(x, quota) == RatScale(Rat(x, quota), 100)

\* line 151 and line 153
PercentOf(x, quota) ==
    IF quota # 0 THEN RatScale(TrueDiv(x, quota), 100) ELSE RatZero

\* line 152
ForecastByEom(attained, passed, remaining) ==
    IF passed # 0 THEN FloatDivMulTrunc(attained, passed, passed + remaining)
    ELSE 0

\* lines 144-153
MonthlyKpi(df, quota, today_) ==
    LET first_day == Date(today_.y, today_.m, 1)
        last_day  == MonthEnd(first_day)
        passed    == DaysBetween(today_, first_day) + 1
        remaining == DaysBetween(last_day, today_)
        monthly   == quota * (passed + remaining)
        attained  == SumCounts(df,
                        {r \in DOMAIN df :
                            /\ DateLeq(first_day, r.application_date)
                            /\ DateLeq(r.application_date, today_)})
        forecast  == ForecastByEom(attained, passed, remaining)
    IN  [days_passed             |-> passed,
         remaining_days_in_month |-> remaining,
         monthly_quota           |-> monthly,
         attained_this_month     |-> attained,
         percent_delivered       |-> PercentOf(attained, monthly),
         forecast_by_eom         |-> forecast,
         percent_forecast        |-> PercentOf(forecast, monthly)]

\* lines 144-190: the summary, then the "Latest Day Considered" line, where
\* max() of no dates is NaT and NaT.strftime raises
MonthlyForecast ==
    /\ pc = "forecast"
    /\ kpi' = MonthlyKpi(df_filtered, daily_quota, today)
    /\ IF Raises(kpi'.percent_delivered) \/ Raises(kpi'.percent_forecast)
       THEN raised' = "ZeroDivisionError" /\ pc' = "halt"
       ELSE IF DOMAIN df_filtered = {}
       THEN raised' = "ValueError: NaTType does not support strftime"
            /\ pc' = "halt"
       ELSE raised' = raised /\ pc' = "M"
    /\ UNCHANGED <<inputs, nat, loc, active_only, df_filtered, daily_quota,
                   year_days, total_quota, charts>>

\* lines 196-200
NeededAvg(df, total, level, today_) ==
    LET attained       == SumCounts(df, {r \in DOMAIN df :
                                r.application_date.y = today_.y})
        remaining_days == DaysBetween(Date(today_.y, 12, 31), today_)
        per_day        == IF remaining_days > 0
                          THEN TrueDiv(total - attained, remaining_days)
                          ELSE RatZero
    IN  IF level = "M" THEN RatScale(per_day, 30)
        ELSE IF level = "W" THEN RatScale(per_day, 7)
        ELSE per_day

NextPc(level) ==
    IF level = "M" THEN "W" ELSE IF level = "W" THEN "D" ELSE "done"

\* the frame with the columns that lines 56-67 assign
WithColumns(df, level) ==
    LET ext(r) == [application_date   |-> r.application_date,
                   nationality        |-> r.nationality,
                   location           |-> r.location,
                   active_visa_status |-> r.active_visa_status,
                   year               |-> r.application_date.y,
                   period             |-> PeriodOf(level, r.application_date)]
    IN  [x \in {ext(r) : r \in DOMAIN df} |->
            df[CHOOSE r \in DOMAIN df : ext(r) = x]]

\* the iteration with prepare_grouped working on the caller's frame
Render_inplace(level) ==
    /\ pc = level
    /\ LET df_plot    == prepare_grouped(df_filtered, level, this_year,
                                         last_year, today, observed)
           needed_avg == NeededAvg(df_filtered, total_quota, level, today)
       IN  charts' = [charts EXCEPT ![level] =
                         plot_chart(df_plot, this_year, last_year, needed_avg,
                                    level, today)]
    /\ df_filtered' = WithColumns(df_filtered, level)
    /\ pc' = NextPc(level)
    /\ UNCHANGED <<inputs, nat, loc, active_only, raised, daily_quota,
                   year_days, total_quota, kpi>>

\* lines 194-201: one iteration of the loop over the view levels
Render(level) ==
    /\ pc = level
    /\ LET df_plot    == prepare_grouped(df_filtered, level, this_year,
                                         last_year, today, observed)
           needed_avg == NeededAvg(df_filtered, total_quota, level, today)
       IN  charts' = [charts EXCEPT ![level] =
                         plot_chart(df_plot, this_year, last_year, needed_avg,
                                    level, today)]
    /\ pc' = NextPc(level)
    /\ UNCHANGED <<inputs, nat, loc, active_only, raised, df_filtered,
                   daily_quota, year_days, total_quota, kpi>>

\* a change of a sidebar widget reruns the script in a fresh namespace
Interact(n, l, a) ==
    /\ pc \in {"done", "halt"}
    /\ raised # "ValueError: not in list"
    /\ n \in NatOptions /\ l \in LocOptions
    /\ <<n, l, a>> # <<nat, loc, active_only>>
    /\ nat' = n /\ loc' = l /\ active_only' = a
    /\ pc' = "load"
    /\ raised' = "none"
    /\ df_filtered' = EmptyFrame
    /\ daily_quota' = 0
    /\ year_days' = 0
    /\ total_quota' = 0
    /\ kpi' = NoKpi
    /\ charts' = NoCharts
    /\ queries' = {}
    /\ UNCHANGED <<table_apps, table_quotas, now, cache_apps, cache_quotas,
                   df_apps, df_quotas, today, observed>>

Next ==
    \/ Load
    \/ Sidebar
    \/ Filtering
    \/ MonthlyForecast
    \/ \E level \in SeqRange(Levels) : Render(level)
    \/ \E n \in NatOptions, l \in LocOptions, a \in BOOLEAN :
          Interact(n, l, a)

Spec == Init /\ [][Next]_vars

SpecE2E == InitE2E /\ [][Next]_vars

SpecCal == InitCal /\ [][Next]_vars

(***************************************************************************)
(* The server over time: between runs the clock advances and the warehouse *)
(* receives applications and quota revisions                               *)
(***************************************************************************)
MaxTime == 7200

TickSteps == {TTL \div 2, TTL - 1}

CachePool ==
    {App(dt, "filipina", "outside_uae", "false") :
        dt \in {Date(2024, 1, 5), Date(2024, 1, 20)}}

CacheQuotaTables ==
    { <<Quota("filipina", "outside_uae", 10, 5)>>,
      <<Quota("filipina", "outside_uae", 12, 5)>> }

InitCache ==
    /\ table_apps \in {[r \in rows |-> 1] :
                           rows \in (SUBSET CachePool) \ {{}}}
    /\ table_quotas \in CacheQuotaTables
    /\ today = Date(2024, 1, 21)
    /\ observed \in BOOLEAN
    /\ Blank

Tick(d) ==
    /\ pc \in {"done", "halt"}
    /\ now + d <= MaxTime
    /\ now' = now + d
    /\ UNCHANGED <<table_apps, table_quotas, cache_apps, cache_quotas,
                   queries, df_apps, df_quotas, today, observed, nat, loc,
                   active_only, pc, raised, df_filtered, daily_quota,
                   year_days, total_quota, kpi, charts>>

\* a new application arrives in the warehouse view
Ingest(r) ==
    /\ r \notin DOMAIN table_apps
    /\ table_apps' = [x \in DOMAIN table_apps \cup {r} |->
                         IF x = r THEN 1 ELSE table_apps[x]]
    /\ UNCHANGED <<table_quotas, now, cache_apps, cache_quotas, queries,
                   df_apps, df_quotas, today, observed, nat, loc, active_only,
                   pc, raised, df_filtered, daily_quota, year_days,
                   total_quota, kpi, charts>>

\* the quota table is revised
Requota(t) ==
    /\ t # table_quotas
    /\ table_quotas' = t
    /\ UNCHANGED <<table_apps, now, cache_apps, cache_quotas, queries,
                   df_apps, df_quotas, today, observed, nat, loc, active_only,
                   pc, raised, df_filtered, daily_quota, year_days,
                   total_quota, kpi, charts>>

NextServer ==
    \/ Next
    \/ \E d \in TickSteps : Tick(d)
    \/ \E r \in CachePool : Ingest(r)
    \/ \E t \in CacheQuotaTables : Requota(t)

SpecCache == InitCache /\ [][NextServer]_vars

(***************************************************************************)
(* Positions of a run                                                      *)
(***************************************************************************)
\* lines 134-141 have run
Filtered ==
    \/ pc \in {"forecast", "M", "W", "D", "done"}
    \/ pc = "halt" /\ raised # "ValueError: not in list"

\* lines 144-153 have run
Forecasted ==
    \/ pc \in {"M", "W", "D", "done"}
    \/ pc = "halt" /\ raised # "ValueError: not in list"

\* the chart of a level has been drawn
Drawn(level) ==
    \/ pc = "done"
    \/ level = "M" /\ pc \in {"W", "D"}
    \/ level = "W" /\ pc = "D"

\* the calendar, stated independently of the script's arithmetic
GregorianLeap(y) == y % 400 = 0 \/ (y % 4 = 0 /\ y % 100 # 0)

GregorianYearLength(y) == IF GregorianLeap(y) THEN 366 ELSE 365

GregorianMonthLength(y, m) ==
    CASE m \in {1, 3, 5, 7, 8, 10, 12} -> 31
      [] m \in {4, 6, 9, 11}           -> 30
      [] OTHER                         -> IF GregorianLeap(y) THEN 29 ELSE 28

\* the special segment, in any spelling of its letters' case
SpecialSegment(n, l) ==
    /\ n \in {"filipina", "Filipina"}
    /\ l \in {"philippines", "Philippines"}

\* Monday of the ISO week of a date, as an ordinal
WeekStart(dt) == Ordinal(dt) - (IsoWeekday(dt) - 1)

\* the date with day-of-year n in year y
DateOfDoy(y, n) ==
    LET m == CHOOSE mm \in 1..12 :
                 /\ DaysBeforeMonth(y, mm) < n
                 /\ n <= DaysBeforeMonth(y, mm) + DaysInMonth(y, mm)
    IN  Date(y, m, n - DaysBeforeMonth(y, m))

\* the dates of calendar year y that carry ISO week number w: days of the
\* week itself, and days at either end of the year that belong to a week of
\* the neighbouring ISO year with the same number
WeekDates(y, w) ==
    LET len  == GregorianYearLength(y)
        doys == ({1, 2, 3} \cup {len - 2, len - 1, len}
                   \cup ((7 * (w - 1) - 2)..(7 * (w - 1) + 10))) \cap (1..len)
    IN  {dt \in {DateOfDoy(y, n) : n \in doys} : IsoWeek(dt) = w}

\* the period of a current-year bucket lies strictly after today
FutureBucket(level, k) ==
    IF level = "M" THEN MonthIndex(k) > today.m
    ELSE IF level = "W"
    THEN /\ WeekDates(this_year, k) # {}
         /\ \A dt \in WeekDates(this_year, k) : WeekStart(dt) > WeekStart(today)
    ELSE /\ ParsesInYear(k, this_year)
         /\ Ordinal(safe_parse(k, this_year)) > Ordinal(today)

\* the filtered applications of the current year that fall in a bucket
BucketRows(level, k) ==
    {r \in DOMAIN df_filtered :
        /\ r.application_date.y = this_year
        /\ PeriodOf(level, r.application_date) = k}

(***************************************************************************)
(* C1  Future-masking invariant: at every level, after prepare_grouped no  *)
(* current-year bucket whose period lies strictly after today (a later     *)
(* month, a later ISO week, a later day) carries a count.                  *)
(***************************************************************************)
C1_FutureBucketsAbsent ==
    \A level \in SeqRange(Levels) :
        Drawn(level) =>
            \A k \in SeqRange(charts[level].x) :
                FutureBucket(level, k) => k \notin DOMAIN charts[level].this

(***************************************************************************)
(* C2  Masking removes only future buckets: at every level a current-year  *)
(* bucket that holds a filtered application dated on or before today keeps *)
(* its count and is not absent.                                            *)
(***************************************************************************)
C2_PastBucketsKept ==
    \A level \in SeqRange(Levels) :
        Drawn(level) =>
            \A r \in DOMAIN df_filtered :
                (r.application_date.y = this_year
                   /\ DateLeq(r.application_date, today)) =>
                    LET k == PeriodOf(level, r.application_date)
                    IN  /\ k \in DOMAIN charts[level].this
                        /\ charts[level].this[k] =
                               SumCounts(df_filtered, BucketRows(level, k))

(***************************************************************************)
(* C3  filter_applications returns exactly the records of the segment's    *)
(* nationality and location, restricted to active_visa_status = "true" if  *)
(* and only if active_only is set and the segment is (filipina,            *)
(* philippines) in any letter case; every kept record keeps its rows.      *)
(***************************************************************************)
C3_FilterExact ==
    Filtered =>
        /\ DOMAIN df_filtered \subseteq DOMAIN df_apps
        /\ \A r \in DOMAIN df_apps :
              /\ r \in DOMAIN df_filtered <=>
                    /\ r.nationality = nat
                    /\ r.location = loc
                    /\ (active_only /\ SpecialSegment(nat, loc))
                          => r.active_visa_status = "true"
              /\ r \in DOMAIN df_filtered => df_filtered[r] = df_apps[r]

\* the special segment spelled with a capital, active_only set: a record of
\* the segment whose flag is not "true" has been dropped
C3_Witness ==
    /\ pc = "forecast"
    /\ active_only
    /\ nat = "Filipina"
    /\ SpecialSegment(nat, loc)
    /\ \E r \in DOMAIN df_apps :
          /\ r.nationality = nat /\ r.location = loc
          /\ r.active_visa_status = "false"
          /\ r \notin DOMAIN df_filtered

(***************************************************************************)
(* C4  Segments other than the special one ignore active_only: the pass    *)
(* with active_only flipped, on the same snapshot, quota table and today,  *)
(* gives the same daily quota, the same summary and the same charts.       *)
(***************************************************************************)
\* what a complete pass computes for the selected segment
PassOutputs(active) ==
    LET f     == filter_applications(df_apps, nat, loc, active)
        q     == get_daily_quota(df_quotas, nat, loc, active)
        total == q * YearDays(today.y)
    IN  [daily_quota |-> q,
         kpi         |-> MonthlyKpi(f, q, today),
         charts      |->
             [l \in SeqRange(Levels) |->
                 plot_chart(prepare_grouped(f, l, this_year, last_year,
                                            today, observed),
                            this_year, last_year,
                            NeededAvg(f, total, l, today), l, today)]]

C4_ActiveOnlyIgnored ==
    (pc = "done" /\ ~SpecialSegment(nat, loc)) =>
        [daily_quota |-> daily_quota, kpi |-> kpi, charts |-> charts]
            = PassOutputs(~active_only)

(***************************************************************************)
(* C5  get_daily_quota is 0 when no quota row has the segment's            *)
(* nationality and location; otherwise it is the first matching row's      *)
(* quota_active when active_only is set and its quota_all when not.        *)
(***************************************************************************)
MatchingQuotaRows ==
    {i \in 1..Len(df_quotas) :
        df_quotas[i].nationality = nat /\ df_quotas[i].location = loc}

C5_DailyQuota ==
    Filtered =>
        IF MatchingQuotaRows = {}
        THEN daily_quota = 0 /\ raised \in {"none",
                 "ValueError: NaTType does not support strftime"}
        ELSE \E i \in MatchingQuotaRows :
                /\ \A j \in MatchingQuotaRows : i <= j
                /\ daily_quota = IF active_only THEN df_quotas[i].quota_active
                                 ELSE df_quotas[i].quota_all

\* a row matches, active_only is set and the active quota differs
C5_Witness ==
    /\ pc = "forecast"
    /\ active_only
    /\ \E i \in MatchingQuotaRows :
          /\ daily_quota = df_quotas[i].quota_active
          /\ daily_quota # df_quotas[i].quota_all

(***************************************************************************)
(* C6  With a daily quota of 0 the monthly summary has percent_delivered   *)
(* = 0 and percent_forecast = 0 and no division by zero is raised,         *)
(* whatever today and the filtered applications are.                       *)
(***************************************************************************)
C6_ZeroQuotaPercents ==
    (Forecasted /\ daily_quota = 0) =>
        /\ raised # "ZeroDivisionError"
        /\ kpi.percent_delivered.den # 0 /\ kpi.percent_delivered.num = 0
        /\ kpi.percent_forecast.den # 0 /\ kpi.percent_forecast.num = 0

\* zero quota with applications delivered this month and a forecast
C6_Witness ==
    /\ pc = "M"
    /\ daily_quota = 0
    /\ kpi.attained_this_month > 0
    /\ kpi.forecast_by_eom > 0

(***************************************************************************)
(* C7  The required average per day is (annual_quota - delivered_this_year)*)
(* / remaining_days, with remaining_days the days from today to 31         *)
(* December, and 0 when remaining_days <= 0; the monthly chart shows 30    *)
(* times it, the weekly chart 7 times it and the daily chart the pace.     *)
(***************************************************************************)
DeliveredThisYear ==
    SumCounts(df_filtered,
              {r \in DOMAIN df_filtered : r.application_date.y = today.y})

RemainingDaysInYear == GregorianYearLength(today.y) - DayOfYear(today)

PaceScale(level) == IF level = "M" THEN 30 ELSE IF level = "W" THEN 7 ELSE 1

C7_RequiredAverage ==
    \A level \in SeqRange(Levels) :
        Drawn(level) =>
            LET annual_quota == daily_quota * GregorianYearLength(today.y)
                figure       == charts[level].needed_avg
            IN  /\ figure.den # 0
                /\ IF RemainingDaysInYear <= 0 THEN figure.num = 0
                   ELSE RatEq(figure,
                              Rat(PaceScale(level)
                                    * (annual_quota - DeliveredThisYear),
                                  RemainingDaysInYear))

(***************************************************************************)
(* C8  year_length is 366 exactly when today's year is a Gregorian leap    *)
(* year and 365 otherwise, and annual_quota = daily_quota * year_length.   *)
(***************************************************************************)
C8_YearLength ==
    Filtered =>
        /\ year_days = GregorianYearLength(today.y)
        /\ total_quota = daily_quota * year_days

(***************************************************************************)
(* C9  days_elapsed is today's day of month (>= 1), days_remaining is the  *)
(* rest of today's month (>= 0), their sum is the length of today's month  *)
(* and monthly_quota = daily_quota * that length, leap February included.  *)
(***************************************************************************)
C9_MonthlyQuota ==
    Forecasted =>
        LET len == GregorianMonthLength(today.y, today.m)
        IN  /\ kpi.days_passed = today.d
            /\ kpi.days_passed >= 1
            /\ kpi.remaining_days_in_month = len - today.d
            /\ kpi.remaining_days_in_month >= 0
            /\ kpi.days_passed + kpi.remaining_days_in_month = len
            /\ kpi.monthly_quota = daily_quota * len

\* the summary of 29 February of a leap year with a non-zero quota
C9_Witness ==
    /\ pc = "M"
    /\ today.m = 2 /\ today.d = 29
    /\ kpi.days_passed = 29
    /\ kpi.remaining_days_in_month = 0
    /\ daily_quota > 0
    /\ kpi.monthly_quota = daily_quota * 29

(***************************************************************************)
(* C10  forecast_end_of_month = floor(delivered_this_month * (days_elapsed *)
(* + days_remaining) / days_elapsed), and percent_forecast =               *)
(* forecast_end_of_month / monthly_quota * 100 when monthly_quota # 0.     *)
(***************************************************************************)
C10_Forecast ==
    Forecasted =>
        /\ kpi.forecast_by_eom =
              (kpi.attained_this_month
                 * (kpi.days_passed + kpi.remaining_days_in_month))
              \div kpi.days_passed
        /\ kpi.monthly_quota # 0 =>
              RatEq(kpi.percent_forecast,
                    Rat(kpi.forecast_by_eom * 100, kpi.monthly_quota))

(***************************************************************************)
(* C11  At month and week level every key under the required-average line  *)
(* is a future period of the current year: a month after today's month or  *)
(* a week number above today's ISO week number.                            *)
(***************************************************************************)
C11_NeededOnlyFuture ==
    /\ Drawn("M") =>
          \A k \in SeqRange(charts["M"].future_x) : MonthIndex(k) > today.m
    /\ Drawn("W") =>
          \A k \in SeqRange(charts["W"].future_x) : k > IsoWeek(today)

(***************************************************************************)
(* C12  At day level, when the current year has a column, the              *)
(* required-average line is drawn exactly over the keys that name a date   *)
(* of the current year on or after tomorrow, i.e. strictly after today;    *)
(* today's key and all earlier keys are excluded.  Without a current-year  *)
(* column no line is drawn.                                                *)
(***************************************************************************)
\* the key names a date of year y
ValidDayKey(k, y) ==
    /\ KeyMonth(k) \in 1..12
    /\ KeyDay(k) >= 1
    /\ KeyDay(k) <= GregorianMonthLength(y, KeyMonth(k))

\* days from today to the date a valid key names in the current year
DaysAhead(k) ==
    Ordinal(Date(this_year, KeyMonth(k), KeyDay(k))) - Ordinal(today)

DayLineKeys(minAhead) ==
    {k \in SeqRange(charts["D"].x) :
        ValidDayKey(k, this_year) /\ DaysAhead(k) >= minAhead}

C12_DayLineFromTomorrow ==
    Drawn("D") =>
        /\ SeqRange(charts["D"].future_x) =
              (IF charts["D"].has_this THEN DayLineKeys(1) ELSE {})
        /\ charts["D"].has_needed <=> charts["D"].future_x # <<>>

\* the line starts on tomorrow's own key
C12_Witness ==
    /\ pc = "done"
    /\ charts["D"].has_needed
    /\ \E k \in SeqRange(charts["D"].future_x) : DaysAhead(k) = 1
    /\ \E k \in SeqRange(charts["D"].x) :
          ValidDayKey(k, this_year) /\ DaysAhead(k) <= 0

\* the claim as stated: exactly the keys strictly after tomorrow
C12_DayLineAfterTomorrow ==
    Drawn("D") => SeqRange(charts["D"].future_x) = DayLineKeys(2)

(***************************************************************************)
(* C13  The keys of the table returned by prepare_grouped are in strictly  *)
(* ascending order of the level: Jan..Dec for months, ascending numbers    *)
(* for weeks, ascending month*100+day for "DD/MM" keys (chronological, not *)
(* lexicographic: "05/01" comes before "01/02").                           *)
(***************************************************************************)
ChronoRank(level, k) ==
    IF level = "M" THEN MonthIndex(k)
    ELSE IF level = "W" THEN k
    ELSE KeyMonth(k) * 100 + KeyDay(k)

C13_KeysAscending ==
    \A level \in SeqRange(Levels) :
        Drawn(level) =>
            \A i, j \in 1..Len(charts[level].x) :
                i < j => ChronoRank(level, charts[level].x[i])
                            < ChronoRank(level, charts[level].x[j])

\* 5 January and 1 February: the string order of the keys is the reverse
C13_Witness ==
    /\ pc = "done"
    /\ charts["D"].x = << <<"0", "5", "/", "0", "1">>,
                          <<"0", "1", "/", "0", "2">> >>
    /\ Len(charts["M"].x) >= 2

(***************************************************************************)
(* C14  Every period key produced by prepare_grouped belongs to the key    *)
(* domain of its level: one of the 12 month abbreviations, a week number   *)
(* in 1..53, or a "DD/MM" string naming a valid day-month pair.            *)
(***************************************************************************)
KeyInDomain(level, k) ==
    IF level = "M"
    THEN k \in {"Jan", "Feb", "Mar", "Apr", "May", "Jun",
                "Jul", "Aug", "Sep", "Oct", "Nov", "Dec"}
    ELSE IF level = "W" THEN k \in 1..53
    ELSE /\ Len(k) = 5
         /\ k[3] = "/"
         /\ \A i \in {1, 2, 4, 5} : k[i] \in SeqRange(Digits)
         /\ KeyMonth(k) \in 1..12
         /\ KeyDay(k) \in 1..GregorianMonthLength(2024, KeyMonth(k))

C14_KeysInDomain ==
    \A level \in SeqRange(Levels) :
        Drawn(level) =>
            \A k \in SeqRange(charts[level].x) : KeyInDomain(level, k)

\* a date of early January that belongs to the last ISO week of the year
\* before has been bucketed at all three levels
C14_Witness ==
    /\ pc = "done"
    /\ \E r \in DOMAIN df_filtered :
          /\ r.application_date.m = 1
          /\ r.application_date.y \in {this_year, last_year}
          /\ \E k \in SeqRange(charts["W"].x) :
                k >= 52 /\ k = IsoWeek(r.application_date)
    /\ charts["M"].x # <<>> /\ charts["D"].x # <<>>

(***************************************************************************)
(* C15  When the filtered applications of the selected segment are empty   *)
(* the run completes without raising: the summary shows zero delivered and *)
(* every chart series is empty or absent.                                  *)
(***************************************************************************)
C15_EmptyFilterCompletes ==
    (Filtered /\ DOMAIN df_filtered = {} /\ pc \in {"done", "halt"}) =>
        /\ pc = "done"
        /\ raised = "none"
        /\ kpi.attained_this_month = 0
        /\ \A level \in SeqRange(Levels) :
              /\ charts[level].x = <<>>
              /\ ~charts[level].has_this /\ ~charts[level].has_last
              /\ ~charts[level].has_needed

(***************************************************************************)
(* C17  End-to-end scenario: applications dated 2024-01-05, 2024-01-20 and *)
(* 2023-01-10, all in segment (A, B), quota row (A, B, 10, 5), active_only *)
(* off and today = 2024-01-21 give daily_quota 10, month bucket Jan with 2 *)
(* for the current and 1 for the prior year, monthly_quota 310, 2          *)
(* delivered this month and a forecast of 2.                               *)
(***************************************************************************)
ScenarioRows == {App(dt, "A", "B", "false") : dt \in E2EDates}

C17_EndToEnd ==
    (DOMAIN df_apps = ScenarioRows /\ pc \in {"done", "halt"}) =>
        /\ pc = "done"
        /\ raised = "none"
        /\ nat = "A" /\ loc = "B" /\ ~active_only
        /\ daily_quota = 10
        /\ charts["M"].this["Jan"] = 2
        /\ charts["M"].last["Jan"] = 1
        /\ kpi.monthly_quota = 310
        /\ kpi.attained_this_month = 2
        /\ kpi.forecast_by_eom = 2

(***************************************************************************)
(* C18  On the first run the sidebar selects "filipina" and "outside_uae"  *)
(* when they occur in the loaded data and otherwise the first value in     *)
(* alphabetical order, without raising.                                    *)
(***************************************************************************)
\* sorted(): the category names of the model in code point order
AlphaOrder ==
    <<"A", "B", "Filipina", "Philippines", "ethiopian", "filipina",
      "outside_uae", "philippines">>

AlphaRank(str) == CHOOSE i \in 1..Len(AlphaOrder) : AlphaOrder[i] = str

DefaultOption(options, preferred) ==
    IF preferred \in options THEN preferred
    ELSE CHOOSE o \in options :
             \A other \in options : AlphaRank(o) <= AlphaRank(other)

C18_DefaultSelection ==
    [][(pc = "sidebar" /\ nat = Unset /\ DOMAIN df_apps # {}) =>
          /\ pc' = "filter"
          /\ raised' = "none"
          /\ nat' = DefaultOption(NatOptions, "filipina")
          /\ loc' = DefaultOption(LocOptions, "outside_uae")
          /\ ~active_only']_vars

(***************************************************************************)
(* C19  Snapshot reuse: a run that starts less than 3600 seconds after the *)
(* fetch that filled a loader's cache issues no query for that table and   *)
(* computes on the snapshot of the previous run; a query is issued only    *)
(* when nothing is cached yet or the cached entry has expired.             *)
(***************************************************************************)
Fresh(entry) == entry.filled /\ now - entry.at < 3600

C19_SnapshotReuse ==
    [][pc = "load" =>
          /\ Fresh(cache_apps) =>
                /\ "load_applications" \notin queries'
                /\ df_apps' = df_apps
                /\ cache_apps' = cache_apps
          /\ Fresh(cache_quotas) =>
                /\ "load_quotas" \notin queries'
                /\ df_quotas' = df_quotas
                /\ cache_quotas' = cache_quotas
          /\ "load_applications" \in queries' => ~Fresh(cache_apps)
          /\ "load_quotas" \in queries' => ~Fresh(cache_quotas)]_vars

\* a run just loaded 3599 seconds after the fetch, without a query, and
\* works on a snapshot that both tables have since moved away from
C19_Witness ==
    /\ pc = "sidebar"
    /\ queries = {}
    /\ now - cache_apps.at = 3599
    /\ now - cache_quotas.at = 3599
    /\ df_apps # table_apps
    /\ df_quotas # table_quotas

\* a run just loaded after the entries expired and fetched both tables anew
C19_WitnessRefetch ==
    /\ pc = "sidebar"
    /\ now >= 3600
    /\ queries = {"load_applications", "load_quotas"}
    /\ df_apps = table_apps

(***************************************************************************)
(* C20  Month and week masking rule: in the current-year column a month    *)
(* bucket is made absent exactly when its month is after today's month     *)
(* (today's own month is kept) and a week bucket exactly when its week     *)
(* number is greater than today's ISO week number; every other             *)
(* current-year cell and the whole prior-year column are as the grouping   *)
(* left them.                                                              *)
(***************************************************************************)
\* the filtered applications of year y that fall in a bucket
YearBucketRows(level, k, y) ==
    {r \in DOMAIN df_filtered :
        /\ r.application_date.y = y
        /\ PeriodOf(level, r.application_date) = k}

\* the cell holds what the grouping counted: the number of applications,
\* absent when there are none unless every month category is kept
AsGrouped(level, series, k, y) ==
    LET n == SumCounts(df_filtered, YearBucketRows(level, k, y))
    IN  /\ k \in DOMAIN series <=> (n > 0 \/ (level = "M" /\ ~observed))
        /\ k \in DOMAIN series => series[k] = n

AfterToday(level, k) ==
    IF level = "M" THEN MonthIndex(k) > today.m ELSE k > IsoWeek(today)

C20_MonthWeekMasking ==
    \A level \in {"M", "W"} :
        Drawn(level) =>
            \A k \in SeqRange(charts[level].x) :
                /\ charts[level].has_this =>
                      IF AfterToday(level, k)
                      THEN k \notin DOMAIN charts[level].this
                      ELSE AsGrouped(level, charts[level].this, k, this_year)
                /\ charts[level].has_last =>
                      AsGrouped(level, charts[level].last, k, last_year)

\* both charts hold a counted current period and a later period whose
\* applications were masked
C20_Witness ==
    /\ pc = "done"
    /\ \A level \in {"M", "W"} :
          /\ \E k \in DOMAIN charts[level].this :
                ~AfterToday(level, k) /\ charts[level].this[k] > 0
          /\ \E k \in SeqRange(charts[level].x) :
                AfterToday(level, k)
                  /\ YearBucketRows(level, k, this_year) # {}

(***************************************************************************)
(* C21  Day masking rule: after prepare_grouped at day level a day key has *)
(* a non-absent current-year value if and only if at least one filtered    *)
(* application of the current year with that day and month is dated on or  *)
(* before today.                                                           *)
(***************************************************************************)
\* filtered applications of the current year, dated up to today, on a key
DeliveredOnKey(k) ==
    {r \in DOMAIN df_filtered :
        /\ r.application_date.y = this_year
        /\ StrfDayMonth(r.application_date) = k
        /\ Ordinal(r.application_date) <= Ordinal(today)}

C21_DayMasking ==
    Drawn("D") =>
        /\ DOMAIN charts["D"].this \subseteq SeqRange(charts["D"].x)
        /\ \A k \in SeqRange(charts["D"].x) :
              k \in DOMAIN charts["D"].this <=> DeliveredOnKey(k) # {}

\* the chart holds today's own key with its count and the key of a later
\* application of the current year, which is masked
C21_Witness ==
    /\ Drawn("D")
    /\ StrfDayMonth(today) \in DOMAIN charts["D"].this
    /\ \E r \in DOMAIN df_filtered :
          /\ r.application_date.y = this_year
          /\ Ordinal(r.application_date) > Ordinal(today)
          /\ StrfDayMonth(r.application_date) \notin DOMAIN charts["D"].this

(***************************************************************************)
(* C22  In the bucket table before masking, a (period key, year)           *)
(* combination in which no application falls has no count: it is absent,   *)
(* not zero, at every level including month.                               *)
(***************************************************************************)
\* the table of a level as grouped.pivot leaves it (line 70)
PreMask(level) == Pivot(df_filtered, level, this_year, last_year, observed)

C22_EmptyCombinationAbsent ==
    Filtered =>
        \A level \in SeqRange(Levels) :
            \A k \in SeqRange(PreMask(level).index) :
                \A y \in {this_year, last_year} :
                    YearBucketRows(level, k, y) = {} =>
                        <<k, y>> \notin DOMAIN PreMask(level).cells

(***************************************************************************)
(* C23  The rows of the bucket table are exactly the period keys observed  *)
(* in either of the two comparison years, except at month level, where all *)
(* 12 months are rows whether or not any application falls in them.        *)
(***************************************************************************)
ObservedKeys(level) ==
    {PeriodOf(level, r.application_date) :
        r \in {x \in DOMAIN df_filtered :
                  x.application_date.y \in {this_year, last_year}}}

C23_TableRows ==
    Filtered =>
        \A level \in SeqRange(Levels) :
            SeqRange(PreMask(level).index) =
                IF level = "M" THEN SeqRange(month_abbrs)
                ELSE ObservedKeys(level)

(***************************************************************************)
(* C24  A run leaves its inputs unchanged: prepare_grouped does not modify *)
(* the frame it is given (no added column, no changed value, no removed    *)
(* row), and filter_applications and get_daily_quota do not modify the     *)
(* loaded snapshot of applications or the quota table.                     *)
(***************************************************************************)
C24_InputsUnchanged ==
    [][(pc \in {"filter", "forecast", "M", "W", "D"}) =>
          /\ df_apps' = df_apps
          /\ df_quotas' = df_quotas
          /\ cache_apps' = cache_apps
          /\ cache_quotas' = cache_quotas
          /\ (pc # "filter" => df_filtered' = df_filtered)]_vars

\* a finished run whose filter kept some but not all of the snapshot's rows
\* and whose quota lookup found a row among several
C24_Witness ==
    /\ pc = "done"
    /\ DOMAIN df_filtered # {}
    /\ DOMAIN df_filtered # DOMAIN df_apps
    /\ Len(df_quotas) > 1
    /\ daily_quota > 0
    /\ df_apps = cache_apps.value

(***************************************************************************)
(* C25  Count conservation: at every level and for each of the two         *)
(* comparison years the pre-masking bucket counts of the year sum to the   *)
(* number of filtered applications dated in that year; applications of any *)
(* other year contribute to no bucket and no application is counted in two *)
(* buckets.                                                                *)
(***************************************************************************)
\* stated where the chart of the level is about to be prepared
C25_CountConservation ==
    \A level \in SeqRange(Levels) :
        pc = level =>
            LET cells == PreMask(level).cells
            IN  /\ \A y \in {this_year, last_year} :
                      SumCounts(cells, {c \in DOMAIN cells : c[2] = y}) =
                          SumCounts(df_filtered,
                                    {r \in DOMAIN df_filtered :
                                        r.application_date.y = y})
                /\ \A c \in DOMAIN cells :
                      /\ c[2] \in {this_year, last_year}
                      /\ cells[c] = SumCounts(df_filtered,
                                        YearBucketRows(level, c[1], c[2]))

\* the filtered set holds an application of neither year next to 31
\* applications on one day of the current year
C25_Witness ==
    /\ pc = "W"
    /\ \E r \in DOMAIN df_filtered :
          r.application_date.y \notin {this_year, last_year}
    /\ \E r \in DOMAIN df_filtered :
          r.application_date.y = this_year /\ df_filtered[r] = 31

(***************************************************************************)
(* C26  At week level any two applications counted in the same (week       *)
(* number, year) bucket lie in the same ISO week, i.e. are at most 6 days  *)
(* apart: applications of the first days of January and of the last days   *)
(* of December of one calendar year are never merged into one bucket.      *)
(***************************************************************************)
C26_WeekBucketOneWeek ==
    Drawn("W") =>
        \A k \in SeqRange(charts["W"].x) :
            \A y \in {this_year, last_year} :
                \A r1, r2 \in YearBucketRows("W", k, y) :
                    /\ WeekStart(r1.application_date)
                          = WeekStart(r2.application_date)
                    /\ Ordinal(r1.application_date)
                          - Ordinal(r2.application_date) <= 6

(***************************************************************************)
(* C27  The summary and the monthly chart agree: for every set of filtered *)
(* applications and every today, the number delivered this month equals    *)
(* the current-year count of the monthly series for today's month (no      *)
(* count shown meaning none delivered).                                    *)
(***************************************************************************)
C27_SummaryMatchesChart ==
    Drawn("M") =>
        LET k == month_abbrs[today.m]
        IN  IF k \in DOMAIN charts["M"].this
            THEN charts["M"].this[k] = kpi.attained_this_month
            ELSE kpi.attained_this_month = 0

(***************************************************************************)
(* C28  For every today and every delivered count the forecast for the end *)
(* of the month is at least the number delivered this month, with equality *)
(* on the last day of the month; consequently the forecast percentage is   *)
(* at least the delivered percentage whenever the monthly quota is         *)
(* positive.                                                               *)
(***************************************************************************)
C28_ForecastAtLeastDelivered ==
    Forecasted =>
        /\ kpi.forecast_by_eom >= kpi.attained_this_month
        /\ kpi.remaining_days_in_month = 0 =>
              kpi.forecast_by_eom = kpi.attained_this_month
        /\ kpi.monthly_quota > 0 =>
              kpi.percent_forecast.num * kpi.percent_delivered.den
                  >= kpi.percent_delivered.num * kpi.percent_forecast.den

(***************************************************************************)
(* C29  The required-average value is never negative: for every daily      *)
(* quota >= 0 (0 when the quota row is missing), every number delivered    *)
(* this year and every today, the value drawn on each chart is >= 0, also  *)
(* when the number delivered exceeds the annual quota.                     *)
(***************************************************************************)
C29_RequiredAverageNonNegative ==
    \A level \in SeqRange(Levels) :
        (Drawn(level) /\ charts[level].has_needed) =>
            /\ charts[level].needed_avg.den > 0
            /\ charts[level].needed_avg.num >= 0

(***************************************************************************)
(* C30  If no filtered application is dated in the current year then at    *)
(* every level no masking is applied, no current-year series and no        *)
(* required-average series is drawn, even when the prior year has data and *)
(* future periods exist; the required-average series is drawn only when    *)
(* the current-year column exists and the set of future keys is not empty. *)
(***************************************************************************)
NoneThisYear ==
    \A r \in DOMAIN df_filtered : r.application_date.y # this_year

\* the keys the required-average line is meant for: at day level the keys
\* from tomorrow on, otherwise the keys without a current-year value
FutureKeys(level) ==
    IF level = "D" THEN DayLineKeys(1)
    ELSE {k \in SeqRange(charts[level].x) :
             k \notin DOMAIN charts[level].this}

C30_NoCurrentYearNoLine ==
    \A level \in SeqRange(Levels) :
        Drawn(level) =>
            /\ NoneThisYear =>
                  /\ ~charts[level].has_this
                  /\ charts[level].this = EmptyFrame
                  /\ ~charts[level].has_needed
                  /\ charts[level].future_x = <<>>
                  /\ \A k \in SeqRange(charts[level].x) :
                        AsGrouped(level, charts[level].last, k, last_year)
            /\ charts[level].has_needed =>
                  (charts[level].has_this /\ FutureKeys(level) # {})

\* every chart is drawn from prior-year data only, with keys after today
C30_Witness ==
    /\ pc = "done"
    /\ NoneThisYear
    /\ charts["D"].has_last
    /\ \E k \in DOMAIN charts["M"].last :
          charts["M"].last[k] > 0 /\ MonthIndex(k) > today.m
    /\ \E k \in DOMAIN charts["W"].last : k > IsoWeek(today)
    /\ \E k \in DOMAIN charts["D"].last :
          ValidDayKey(k, this_year) /\ DaysAhead(k) >= 1

=============================================================================
